---- MODULE Spec2Model ----
(***************************************************************************)
(* QuantumChannel (OPqkdsim/channel.py): construction of the channel and   *)
(* the split-step Fourier propagation of one signal event, statement by    *)
(* statement.                                                              *)
(*                                                                         *)
(* Arithmetic.  The program computes in double-precision complex numbers.  *)
(* The model computes exactly, on the inputs for which every intermediate  *)
(* value is a dyadic Gaussian rational (x + iy) / 2^e with integers x, y:  *)
(*   - the FFT sizes are 1, 2 and 4, whose twiddle factors are 1, -1, +-i; *)
(*   - every phase is a whole number of quarter turns, so that exp(i*phi)  *)
(*     is one of 1, i, -1, -i.  Phases are counted in sixteenths of a turn *)
(*     (PhaseUnitsPerTurn): the angular frequency grid is 2*pi*f, and with *)
(*     pi folded into the unit the grid keeps its factor 2;                *)
(*   - the linear attenuation factor 10^(-a/10) is a power of two: the     *)
(*     attenuation a is counted in units of 10*log10(2) dB/km.             *)
(* Lengths are whole kilometres; dz/2 is the rational [num, den].          *)
(* Callers' inputs outside this set are not drawn (Representable).         *)
(***************************************************************************)
EXTENDS Integers, Sequences, FiniteSets, TLC

(* ------------------------------ bounds ------------------------------- *)
MaxLength == 3      \* fiber_length ranges over 0..MaxLength
MaxStep == 2        \* step_size ranges over MinStep..MaxStep
MaxAttenuation == 1 \* attenuation (units of 10*log10(2) dB/km) in 0..MaxAttenuation
MaxWeight == 1      \* sum of the samples of Ex and Ey of one call
MaxTime == 2        \* event_time ranges over 1..MaxTime

MinStep == 0 - 1
SampleCounts == {0, 1, 2, 4}
ArrayLengths == {1, 2, 4}
Beta2Values == {0, 2}
Beta3Values == {0, 3}
GammaValues == {0, 8, 32}
DgDelayValues == {1}

(* --------------------------- exact numbers --------------------------- *)
\* an array as a tuple of its samples
Array(f) == f \o <<>>
\* the element of a one-element set
Only(S) == CHOOSE x \in S : TRUE

RECURSIVE Pow2(_)
Pow2(n) == IF n <= 0 THEN 1 ELSE 2 * Pow2(n - 1)

RECURSIVE SumSeq(_)
SumSeq(s) == IF s = <<>> THEN 0 ELSE Head(s) + SumSeq(Tail(s))

Max(a, b) == IF a >= b THEN a ELSE b
AbsInt(a) == IF a >= 0 THEN a ELSE 0 - a

\* A complex number is <<re, im>>.
CAdd(z, w) == <<z[1] + w[1], z[2] + w[2]>>
Abs2(z) == z[1] * z[1] + z[2] * z[2]
\* z * i^k
RotI(z, k) ==
    CASE k % 4 = 0 -> z
      [] k % 4 = 1 -> <<0 - z[2], z[1]>>
      [] k % 4 = 2 -> <<0 - z[1], 0 - z[2]>>
      [] k % 4 = 3 -> <<z[2], 0 - z[1]>>

RECURSIVE CSum(_)
CSum(s) == IF s = <<>> THEN <<0, 0>> ELSE CAdd(Head(s), CSum(Tail(s)))

\* A complex array is [m, e]: sample k is m[k] / 2^e.  Normal form: m is not
\* all even, or m is all zero and e = 0.
AllEvenC(m) == \A k \in 1..Len(m) : m[k][1] % 2 = 0 /\ m[k][2] % 2 = 0
AllZeroC(m) == \A k \in 1..Len(m) : m[k] = <<0, 0>>
RECURSIVE NormC(_)
NormC(A) ==
    Only({IF AllZeroC(a.m) THEN [m |-> a.m, e |-> 0]
          ELSE IF AllEvenC(a.m)
               THEN NormC([m |-> Array([k \in 1..Len(a.m) |->
                                           <<a.m[k][1] \div 2, a.m[k][2] \div 2>>]),
                           e |-> a.e - 1])
               ELSE a : a \in {A}})

\* A real array is [m, e] with integer m, same normal form.
AllEvenR(m) == \A k \in 1..Len(m) : m[k] % 2 = 0
AllZeroR(m) == \A k \in 1..Len(m) : m[k] = 0
RECURSIVE NormR(_)
NormR(A) ==
    Only({IF AllZeroR(a.m) THEN [m |-> a.m, e |-> 0]
          ELSE IF AllEvenR(a.m)
               THEN NormR([m |-> Array([k \in 1..Len(a.m) |-> a.m[k] \div 2]), e |-> a.e - 1])
               ELSE a : a \in {A}})

RealArray(s) == NormR([m |-> Array(s), e |-> 0])
\* the samples of A as multiples of 1 / 2^e
Lift(A, e) == [m |-> Array([k \in 1..Len(A.m) |-> A.m[k] * Pow2(e - A.e)])]
RSquare(A) == NormR([m |-> Array([k \in 1..Len(A.m) |-> A.m[k] * A.m[k]]), e |-> 2 * A.e])
RAdd(A, B) ==
    Only({NormR([m |-> Array([k \in 1..Len(p[1].m) |-> p[1].m[k] + p[2].m[k]]), e |-> p[3]])
          : p \in {<<Lift(A, Max(A.e, B.e)), Lift(B, Max(A.e, B.e)), Max(A.e, B.e)>>}})
\* the square root of a real array, kept exact by its radicand
RSqrt(A) == [sqrt_of |-> A]
Real(A) == NormR([m |-> Array([k \in 1..Len(A.m) |-> A.m[k][1]]), e |-> A.e])
Imag(A) == NormR([m |-> Array([k \in 1..Len(A.m) |-> A.m[k][2]]), e |-> A.e])
\* a scalar m / 2^e (m odd or zero)
Scalar(m, e) == NormR([m |-> <<m>>, e |-> e])
\* x / 2^a  <  y / 2^b
DyLess(x, a, y, b) == x * Pow2(Max(a, b) - a) < y * Pow2(Max(a, b) - b)

(* ----------------------- numpy / scipy operations -------------------- *)
EmptyArray == [m |-> <<>>, e |-> 0]
\* Ex + 1j * Ey (line 98), both of one length
Complex(Ex, Ey) == NormC([m |-> Array([k \in 1..Len(Ex) |-> <<Ex[k], Ey[k]>>]), e |-> 0])

CMul(z, w) == <<z[1] * w[1] - z[2] * w[2], z[1] * w[2] + z[2] * w[1]>>
Log2(n) == CASE n = 1 -> 0 [] n = 2 -> 1 [] n = 4 -> 2
\* exp(-+ 2*pi*i*(j*k)/n) as a power of i, n in {1, 2, 4}
Twiddle(n, j, k, sign) == sign * (4 \div n) * j * k

\* scipy.fft.fft: X[k] = sum_n x[n] * exp(-2*pi*i*k*n/N)
fft(A) ==
    LET n == Len(A.m)
    IN  NormC([m |-> Array([k \in 1..n |->
                        CSum([j \in 1..n |-> RotI(A.m[j], Twiddle(n, j - 1, k - 1, 0 - 1))])]),
               e |-> A.e])
\* mutant: the inverse transform without its 1/N
ifft_Unscaled(A) ==
    LET n == Len(A.m)
    IN  NormC([m |-> Array([j \in 1..n |->
                        CSum([k \in 1..n |-> RotI(A.m[k], Twiddle(n, j - 1, k - 1, 1))])]),
               e |-> A.e])
\* scipy.fft.ifft: x[n] = (1/N) * sum_k X[k] * exp(+2*pi*i*k*n/N)
ifft(A) ==
    LET n == Len(A.m)
    IN  NormC([m |-> Array([j \in 1..n |->
                        CSum([k \in 1..n |-> RotI(A.m[k], Twiddle(n, j - 1, k - 1, 1))])]),
               e |-> A.e + Log2(n)])

\* a *= b on arrays: b of the same length, or of length 1 (numpy broadcasts it)
Broadcastable(lenA, lenB) == lenB = lenA \/ lenB = 1
Multiply(A, B) ==
    NormC([m |-> Array([k \in 1..Len(A.m) |->
                    CMul(A.m[k], IF Len(B.m) = 1 THEN B.m[1] ELSE B.m[k])]),
           e |-> A.e + B.e])
\* a *= s for a scalar s = m / 2^e
Scale(A, s) ==
    NormC([m |-> Array([k \in 1..Len(A.m) |-> <<A.m[k][1] * s.m[1], A.m[k][2] * s.m[1]>>]),
           e |-> A.e + s.e])
\* mutant: the step length left out of the exponent's effect (s ** 0)
Power_Unit(s, n) == [m |-> <<1>>, e |-> 0]
\* s ** n for s = 1 / 2^e
Power(s, n) == [m |-> <<1>>, e |-> s.e * n]

\* a step length as a rational number of kilometres
Whole(dz) == [num |-> dz, den |-> 1]
Half(dz) == [num |-> dz, den |-> 2]

PhaseUnitsPerTurn == 16
QuarterTurn == PhaseUnitsPerTurn \div 4
\* exp(i * phi) for a phase of q sixteenths of a turn, q a whole number of quarter turns
ExpI(q) == RotI(<<1, 0>>, q \div QuarterTurn)
ExactPhase(num, den) == num % den = 0 /\ (num \div den) % QuarterTurn = 0

\* int(x / y), y # 0: Python's int() truncates toward zero
TruncDiv(x, y) ==
    IF (x >= 0) = (y > 0) THEN AbsInt(x) \div AbsInt(y) ELSE 0 - (AbsInt(x) \div AbsInt(y))

(* ----------------------------- __init__ ------------------------------ *)
ChannelId == "channel"
TimelineId == "timeline"
NoEngine == [constructed |-> FALSE]

\* np.fft.fftfreq(n, d), in units of 1 / (n * d)
fftfreq(n) == [k \in 1..n |-> IF k - 1 <= (n - 1) \div 2 THEN k - 1 ELSE k - 1 - n]
\* 10 ** (-attenuation / 10)
Linear(attenuation) == Scalar(1, attenuation)

ConstructorArgs ==
    [fiber_length : 0..MaxLength, attenuation : 0..MaxAttenuation,
     beta2 : Beta2Values, beta3 : Beta3Values, dg_delay : DgDelayValues,
     gamma : GammaValues, fft_samples : SampleCounts, step_size : MinStep..MaxStep]

LinearArgs == {a \in ConstructorArgs : a.beta3 = 0 /\ a.gamma = 0 /\ a.attenuation = 0}

NewChannel(a) ==
    [constructed |-> TRUE, id |-> ChannelId, timeline |-> TimelineId,
     fiber_length |-> a.fiber_length,
     attenuation |-> Linear(a.attenuation),
     beta2 |-> a.beta2, beta3 |-> a.beta3, dg_delay |-> a.dg_delay,
     gamma |-> a.gamma, fft_samples |-> a.fft_samples, step_size |-> a.step_size,
     frequency_grid |-> fftfreq(a.fft_samples),
     angular_freq |-> [k \in 1..a.fft_samples |-> 2 * fftfreq(a.fft_samples)[k]]]

(* ------------------ dispersion_operator, nonlinear_operator ---------- *)
\* (beta2 / 2) * w^2 * dz + (beta3 / 6) * w^3 * dz, as numerator over 6 * dz.den
DispersionPhaseNum(self, k, dz) ==
    LET w == self.angular_freq[k]
    IN  3 * self.beta2 * w * w * dz.num + self.beta3 * w * w * w * dz.num
DispersionExact(self, dz) ==
    \A k \in 1..self.fft_samples : ExactPhase(DispersionPhaseNum(self, k, dz), 6 * dz.den)

dispersion_operator(self, dz) ==
    [m |-> Array([k \in 1..self.fft_samples |->
              ExpI(0 - (DispersionPhaseNum(self, k, dz) \div (6 * dz.den)))]),
     e |-> 0]

\* gamma * |E[k]|^2 * dz as numerator and denominator, |E[k]|^2 = |m[k]|^2 / 4^e
NonlinearPhaseNum(self, E, k, dz) ==
    self.gamma * Abs2(E.m[k]) * dz.num * Pow2(0 - 2 * E.e)
NonlinearPhaseDen(E, dz) == dz.den * Pow2(2 * E.e)
NonlinearExact(self, E, dz) ==
    \A k \in 1..Len(E.m) :
        ExactPhase(NonlinearPhaseNum(self, E, k, dz), NonlinearPhaseDen(E, dz))

nonlinear_operator(self, E, dz) ==
    NormC([m |-> Array([k \in 1..Len(E.m) |->
                    CMul(E.m[k],
                         ExpI(NonlinearPhaseNum(self, E, k, dz) \div NonlinearPhaseDen(E, dz)))]),
           e |-> E.e])

(* ------------------------- propagate_signal -------------------------- *)
VARIABLES
    pc,          \* "new", "ctor_raised", "idle", or the line about to run: "l94" .. "l122", "ret", "raised"
    engine,      \* the QuantumChannel instance (self), NoEngine before __init__ returns
    raised,      \* the exception in flight, "none" otherwise
    frame,       \* the arguments of the running call
    num_steps, dz, iter, E_complex, E_complex_f, Ex_out, Ey_out, P_out,  \* its locals
    stdout,      \* lines written by the running call
    timeline     \* messages the running call has handed to timeline.publish

vars == <<pc, engine, raised, frame, num_steps, dz, iter, E_complex, E_complex_f,
          Ex_out, Ey_out, P_out, stdout, timeline>>
locals == <<num_steps, dz, iter, E_complex, E_complex_f, Ex_out, Ey_out, P_out>>

NoFrame == [event_time |-> 0, t |-> <<>>, P |-> <<>>, Ex |-> <<>>, Ey |-> <<>>, E |-> <<>>]
NoRealArray == [m |-> <<>>, e |-> 0]

\* arrays of naturals of length n whose samples sum to at most w
Arrays(n, w) == {a \in [1..n -> 0..w] : SumSeq(a) <= w}
FieldPairs(n) ==
    {p \in Arrays(n, MaxWeight) \X Arrays(n, MaxWeight) : SumSeq(p[1]) + SumSeq(p[2]) <= MaxWeight}
\* the arguments t, P, E of a call: as long as Ex and Ey, or longer and of other contents
Ones(n) == [k \in 1..n |-> 1]
Zeros(n) == [k \in 1..n |-> 0]
OtherArgs(n) == {[t |-> Ones(n), P |-> Ones(n), E |-> Ones(n)],
                 [t |-> Zeros(n + 1), P |-> Zeros(n + 1), E |-> Zeros(n + 1)]}

\* the loop body on the field E (lines 102-113), when line 106 can broadcast
\* (each stage is the image of a one-element set, so that TLC computes it once)
AfterDispersion(self, E) ==
    Only({ifft(c) : c \in
          {Multiply(b, dispersion_operator(self, Whole(self.step_size))) : b \in
           {fft(a) : a \in {nonlinear_operator(self, E, Half(self.step_size))}}}})
Iteration(self, E) ==
    Only({Scale(b, Power(self.attenuation, self.step_size)) : b \in
          {nonlinear_operator(self, a, Half(self.step_size)) : a \in
           {AfterDispersion(self, E)}}})
\* range(num_steps) runs max(num_steps, 0) times
Iterations(self) ==
    IF self.step_size = 0 THEN 0
    ELSE Max(TruncDiv(self.fiber_length, self.step_size), 0)

\* every phase of the call is a whole number of quarter turns
RECURSIVE RepresentableFrom(_, _, _)
RepresentableFrom(self, E, n) ==
    IF n <= 0 THEN TRUE
    ELSE IF ~NonlinearExact(self, E, Half(self.step_size)) THEN FALSE
    ELSE IF ~Broadcastable(Len(E.m), self.fft_samples) THEN TRUE
    ELSE /\ DispersionExact(self, Whole(self.step_size))
         /\ \A a \in {AfterDispersion(self, E)} :
                NonlinearExact(self, a, Half(self.step_size))
         /\ \A b \in {Iteration(self, E)} : RepresentableFrom(self, b, n - 1)
Representable(self, Ex, Ey) ==
    \A a \in {Complex(Ex, Ey)} : RepresentableFrom(self, a, Iterations(self))

Init ==
    /\ pc = "new"
    /\ engine = NoEngine
    /\ raised = "none"
    /\ frame = NoFrame
    /\ num_steps = 0 /\ dz = 0 /\ iter = 0
    /\ E_complex = EmptyArray /\ E_complex_f = EmptyArray
    /\ Ex_out = NoRealArray /\ Ey_out = NoRealArray /\ P_out = NoRealArray
    /\ stdout = <<>>
    /\ timeline = <<>>

\* QuantumChannel(timeline, ...): lines 38-51.  np.fft.fftfreq raises for n <= 0
\* (1.0 / (n * d) with n = 0, np.empty(n) with n < 0); nothing else is checked.
ConstructFrom(Args) ==
    /\ pc = "new"
    /\ \E a \in Args :
          IF a.fft_samples <= 0
          THEN /\ pc' = "ctor_raised"
               /\ raised' = IF a.fft_samples = 0 THEN "ZeroDivisionError" ELSE "ValueError"
               /\ engine' = engine
          ELSE /\ pc' = "idle"
               /\ engine' = NewChannel(a)
               /\ raised' = raised
    /\ UNCHANGED <<frame, locals, stdout, timeline>>
Construct == ConstructFrom(ConstructorArgs)
\* the same constructor on the channels without third-order dispersion,
\* nonlinearity or loss, where only the loop control and line 106 differ
ConstructLinear == ConstructFrom(LinearArgs)

\* a caller invokes propagate_signal(event_time, t, P, Ex, Ey, E)
Call ==
    /\ pc = "idle"
    /\ \E n \in ArrayLengths, time \in 1..MaxTime :
         \E xy \in FieldPairs(n), o \in OtherArgs(n) :
            /\ Representable(engine, xy[1], xy[2])
            /\ frame' = [event_time |-> time, t |-> o.t, P |-> o.P,
                         Ex |-> xy[1], Ey |-> xy[2], E |-> o.E]
    /\ pc' = "l94"
    /\ UNCHANGED <<engine, raised, locals, stdout, timeline>>

\* mutant: range(num_steps + 1)
LoopHead_OffByOne(i, n) == IF i <= n THEN "l102" ELSE "l116"
\* where the loop goes after i iterations
LoopHead(i, n) == IF i < n THEN "l102" ELSE "l116"

\* mutant: the field taken from the argument E instead of Ex + 1j * Ey
Line94_ReadsE ==
    /\ pc = "l94"
    /\ IF engine.step_size = 0
       THEN /\ pc' = "raised"
            /\ raised' = "ZeroDivisionError"
            /\ UNCHANGED locals
       ELSE /\ num_steps' = TruncDiv(engine.fiber_length, engine.step_size)
            /\ dz' = engine.step_size
            /\ E_complex' = Complex(frame.E, Zeros(Len(frame.E)))
            /\ iter' = 0
            /\ pc' = IF 0 < num_steps' THEN "l102" ELSE "l116"
            /\ UNCHANGED <<raised, E_complex_f, Ex_out, Ey_out, P_out>>
    /\ UNCHANGED <<engine, frame, stdout, timeline>>

\* lines 94-98: num_steps, dz, E_complex; the division raises for step_size = 0
Line94 ==
    /\ pc = "l94"
    /\ IF engine.step_size = 0
       THEN /\ pc' = "raised"
            /\ raised' = "ZeroDivisionError"
            /\ UNCHANGED locals
       ELSE /\ num_steps' = TruncDiv(engine.fiber_length, engine.step_size)
            /\ dz' = engine.step_size
            /\ E_complex' = Complex(frame.Ex, frame.Ey)
            /\ iter' = 0
            /\ pc' = LoopHead(0, num_steps')
            /\ UNCHANGED <<raised, E_complex_f, Ex_out, Ey_out, P_out>>
    /\ UNCHANGED <<engine, frame, stdout, timeline>>

\* line 102: E_complex = self.nonlinear_operator(E_complex, dz / 2)
Line102 ==
    /\ pc = "l102"
    /\ E_complex' = nonlinear_operator(engine, E_complex, Half(dz))
    /\ pc' = "l105"
    /\ UNCHANGED <<engine, raised, frame, num_steps, dz, iter, E_complex_f,
                   Ex_out, Ey_out, P_out, stdout, timeline>>

\* line 105: E_complex_f = fft(E_complex)
Line105 ==
    /\ pc = "l105"
    /\ E_complex_f' = fft(E_complex)
    /\ pc' = "l106"
    /\ UNCHANGED <<engine, raised, frame, num_steps, dz, iter, E_complex,
                   Ex_out, Ey_out, P_out, stdout, timeline>>

\* mutant: the dispersion operator multiplied into the time-domain field
Line106_TimeDomain ==
    /\ pc = "l106"
    /\ IF Broadcastable(Len(E_complex_f.m), engine.fft_samples)
       THEN /\ E_complex_f' = Multiply(E_complex, dispersion_operator(engine, Whole(dz)))
            /\ pc' = "l107"
            /\ raised' = raised
       ELSE /\ pc' = "raised"
            /\ raised' = "ValueError"
            /\ E_complex_f' = E_complex_f
    /\ UNCHANGED <<engine, frame, num_steps, dz, iter, E_complex,
                   Ex_out, Ey_out, P_out, stdout, timeline>>

\* line 106: E_complex_f *= self.dispersion_operator(dz); numpy raises ValueError
\* when the operator (length fft_samples) cannot be broadcast to the field
Line106 ==
    /\ pc = "l106"
    /\ IF Broadcastable(Len(E_complex_f.m), engine.fft_samples)
       THEN /\ E_complex_f' = Multiply(E_complex_f, dispersion_operator(engine, Whole(dz)))
            /\ pc' = "l107"
            /\ raised' = raised
       ELSE /\ pc' = "raised"
            /\ raised' = "ValueError"
            /\ E_complex_f' = E_complex_f
    /\ UNCHANGED <<engine, frame, num_steps, dz, iter, E_complex,
                   Ex_out, Ey_out, P_out, stdout, timeline>>

\* line 107: E_complex = ifft(E_complex_f)
Line107 ==
    /\ pc = "l107"
    /\ E_complex' = ifft(E_complex_f)
    /\ pc' = "l110"
    /\ UNCHANGED <<engine, raised, frame, num_steps, dz, iter, E_complex_f,
                   Ex_out, Ey_out, P_out, stdout, timeline>>

\* line 110: E_complex = self.nonlinear_operator(E_complex, dz / 2)
Line110 ==
    /\ pc = "l110"
    /\ E_complex' = nonlinear_operator(engine, E_complex, Half(dz))
    /\ pc' = "l113"
    /\ UNCHANGED <<engine, raised, frame, num_steps, dz, iter, E_complex_f,
                   Ex_out, Ey_out, P_out, stdout, timeline>>

\* mutant: self.attenuation **= dz, the loss accumulated in the channel itself
Line113_WritesSelf ==
    /\ pc = "l113"
    /\ engine' = [engine EXCEPT !.attenuation = Power(@, dz)]
    /\ E_complex' = Scale(E_complex, engine'.attenuation)
    /\ iter' = iter + 1
    /\ pc' = IF iter + 1 < num_steps THEN "l102" ELSE "l116"
    /\ UNCHANGED <<raised, frame, num_steps, dz, E_complex_f,
                   Ex_out, Ey_out, P_out, stdout, timeline>>

\* mutant: the publish indented into the loop body
Line113_Publishes ==
    /\ pc = "l113"
    /\ E_complex' = Scale(E_complex, Power(engine.attenuation, dz))
    /\ iter' = iter + 1
    /\ pc' = IF iter + 1 < num_steps THEN "l102" ELSE "l116"
    /\ timeline' = Append(timeline,
                          [source |-> engine.id, time |-> frame.event_time,
                           P_out |-> RAdd(RSquare(Real(E_complex')), RSquare(Imag(E_complex'))),
                           Ex_out |-> Real(E_complex'), Ey_out |-> Imag(E_complex'),
                           magnitude |-> RSqrt(RAdd(RSquare(Real(E_complex')),
                                                    RSquare(Imag(E_complex'))))])
    /\ UNCHANGED <<engine, raised, frame, num_steps, dz, E_complex_f,
                   Ex_out, Ey_out, P_out, stdout>>

\* line 113: E_complex *= self.attenuation ** dz, then the next turn of the loop
Line113 ==
    /\ pc = "l113"
    /\ E_complex' = Scale(E_complex, Power(engine.attenuation, dz))
    /\ iter' = iter + 1
    /\ pc' = LoopHead(iter + 1, num_steps)
    /\ UNCHANGED <<engine, raised, frame, num_steps, dz, E_complex_f,
                   Ex_out, Ey_out, P_out, stdout, timeline>>

\* lines 116-117: Ex_out, Ey_out, P_out
Line116 ==
    /\ pc = "l116"
    /\ Ex_out' = Real(E_complex)
    /\ Ey_out' = Imag(E_complex)
    /\ P_out' = RAdd(RSquare(Real(E_complex)), RSquare(Imag(E_complex)))
    /\ pc' = "l119"
    /\ UNCHANGED <<engine, raised, frame, num_steps, dz, iter, E_complex, E_complex_f,
                   stdout, timeline>>

\* P_out[-1]
Last(A) == Scalar(A.m[Len(A.m)], A.e)

\* line 119: the progress line, event_time and the last sample of P_out
Line119 ==
    /\ pc = "l119"
    /\ stdout' = Append(stdout, [time |-> frame.event_time, P_last |-> Last(P_out)])
    /\ pc' = "l122"
    /\ UNCHANGED <<engine, raised, frame, locals, timeline>>

\* the arguments of self.timeline.publish(...)
Message(self, event_time, Pw, Ex, Ey) ==
    [source |-> self.id, time |-> event_time, P_out |-> Pw, Ex_out |-> Ex, Ey_out |-> Ey,
     magnitude |-> RSqrt(RAdd(RSquare(Ex), RSquare(Ey)))]

\* line 122: self.timeline.publish(self, event_time, P_out, Ex_out, Ey_out, sqrt(...))
Line122 ==
    /\ pc = "l122"
    /\ timeline' = Append(timeline, Message(engine, frame.event_time, P_out, Ex_out, Ey_out))
    /\ pc' = "ret"
    /\ UNCHANGED <<engine, raised, frame, locals, stdout>>

\* the frame is dropped: after the last statement, or by the exception leaving the call
DropFrame ==
    /\ frame' = NoFrame
    /\ num_steps' = 0 /\ dz' = 0 /\ iter' = 0
    /\ E_complex' = EmptyArray /\ E_complex_f' = EmptyArray
    /\ Ex_out' = NoRealArray /\ Ey_out' = NoRealArray /\ P_out' = NoRealArray
    /\ stdout' = <<>>
    /\ timeline' = <<>>

Return ==
    /\ pc = "ret"
    /\ pc' = "idle"
    /\ DropFrame
    /\ UNCHANGED <<engine, raised>>

Unwind ==
    /\ pc = "raised"
    /\ pc' = "idle"
    /\ raised' = "none"
    /\ DropFrame
    /\ UNCHANGED engine

Step ==
    \/ Line94 \/ Line102 \/ Line105 \/ Line106 \/ Line107 \/ Line110 \/ Line113
    \/ Line116 \/ Line119 \/ Line122 \/ Return \/ Unwind

Next == Construct \/ Call \/ Step

Spec == Init /\ [][Next]_vars
\* a running call is never suspended (the channel is synchronous, single-threaded)
\* a call that has started keeps running: the interpreter executes the next line
FairNext == ConstructLinear \/ Call \/ Step
FairSpec == Init /\ [][FairNext]_vars /\ WF_vars(Step)

InCall == pc \notin {"new", "ctor_raised", "idle"}
TypeOK == pc \in {"new", "ctor_raised", "idle", "l94", "l102", "l105", "l106", "l107",
                  "l110", "l113", "l116", "l119", "l122", "ret", "raised"}

(* ------------------- the call as a function of its inputs ------------ *)
RECURSIVE IterateN(_, _, _)
IterateN(self, E, n) ==
    IF n <= 0 THEN E ELSE Only({IterateN(self, a, n - 1) : a \in {Iteration(self, E)}})

\* what a call that does not raise publishes
Outcome(self, event_time, Ex, Ey) ==
    Only({Only({Message(self, event_time, RAdd(RSquare(x), RSquare(y)), x, y) :
                  x \in {Real(E)}, y \in {Imag(E)}}) :
            E \in {IterateN(self, a, Iterations(self)) : a \in {Complex(Ex, Ey)}}})
\* the call reaches line 122: the division succeeds and line 106 can broadcast
Publishes(self, n) ==
    /\ self.step_size # 0
    /\ Iterations(self) = 0 \/ Broadcastable(n, self.fft_samples)

\* sum(P_out) of a message, as numerator and exponent
TotalNum(msg) == SumSeq(msg.P_out.m)
TotalExp(msg) == msg.P_out.e
NoLoss == Linear(0)

FloorDiv(x, y) == IF y > 0 THEN x \div y ELSE (0 - x) \div (0 - y)
Mismatch(self, f) ==
    \E a \in {f.t, f.P, f.Ex, f.Ey, f.E} : Len(a) # self.fft_samples
ValidParameters(self) ==
    self.fft_samples > 0 /\ 0 < self.step_size /\ self.step_size <= self.fiber_length
AfterLoop == pc \in {"l116", "l119", "l122", "ret"}
InLoop == pc \in {"l102", "l105", "l106", "l107", "l110", "l113"}

(* ============================== claims =============================== *)

\* C1: a call hands nothing to timeline.publish while it runs (in the loop or
\* before it) nor when it raises; when it returns it has published exactly one
\* message, after all max(num_steps, 0) iterations, with source = this channel,
\* time = event_time, Ex_out = Re(E), Ey_out = Im(E), P_out = Ex_out^2 + Ey_out^2
\* and magnitude = sqrt(Ex_out^2 + Ey_out^2) of the final field E.
C1_PublishOnceAfterLoop ==
    /\ (InCall /\ pc # "ret") => timeline = <<>>
    /\ pc = "ret" =>
         /\ Len(timeline) = 1
         /\ iter = Max(num_steps, 0)
         /\ timeline[1].source = engine.id
         /\ timeline[1].time = frame.event_time
         /\ timeline[1].Ex_out = Real(E_complex)
         /\ timeline[1].Ey_out = Imag(E_complex)
         /\ timeline[1].P_out = RAdd(RSquare(Real(E_complex)), RSquare(Imag(E_complex)))
         /\ timeline[1].magnitude =
                RSqrt(RAdd(RSquare(Real(E_complex)), RSquare(Imag(E_complex))))
C1_Witness ==
    /\ pc = "ret" /\ iter >= 2 /\ Len(timeline) = 1
    /\ frame.event_time = MaxTime
    /\ E_complex # Complex(frame.Ex, frame.Ey)

\* C2 (as claimed): a call whose t, P, Ex, Ey or E differs in length from
\* fft_samples publishes nothing.
C2_MismatchNeverPublishes ==
    (InCall /\ Mismatch(engine, frame)) => timeline = <<>>

\* C3 (as claimed): no channel exists with a non-positive fiber_length,
\* step_size or fft_samples.
C3_NonPositiveRejected ==
    engine.constructed =>
        engine.fiber_length > 0 /\ engine.step_size > 0 /\ engine.fft_samples > 0

\* C4: with beta2 = beta3 = gamma = 0 and a linear attenuation factor of 1, the
\* published field is the input field, whatever fiber_length and step_size.
C4_NullParametersIdentity ==
    (/\ pc = "ret"
     /\ engine.beta2 = 0 /\ engine.beta3 = 0 /\ engine.gamma = 0
     /\ engine.attenuation = NoLoss) =>
        /\ timeline[1].Ex_out = RealArray(frame.Ex)
        /\ timeline[1].Ey_out = RealArray(frame.Ey)
C4_Witness ==
    /\ pc = "ret" /\ iter >= 2
    /\ engine.beta2 = 0 /\ engine.beta3 = 0 /\ engine.gamma = 0
    /\ engine.attenuation = NoLoss
    /\ engine.fft_samples = 4 /\ frame.Ex = <<1, 0, 0, 0>>

\* the channel self with another fiber_length
WithLength(self, L) == [self EXCEPT !.fiber_length = L]
\* the longer fibers a published call is compared with: same parameters and
\* input, attenuation factor in (0, 1), and a call that publishes too
C5_Longer ==
    {L \in (engine.fiber_length + 1)..MaxLength :
        /\ engine.attenuation.e > 0
        /\ Publishes(WithLength(engine, L), Len(frame.Ex))
        /\ Representable(WithLength(engine, L), frame.Ex, frame.Ey)}
C5_Other(L) == Outcome(WithLength(engine, L), frame.event_time, frame.Ex, frame.Ey)
\* sum(P_out) of the message a is less than that of the message b
C5_Less(a, b) == DyLess(TotalNum(a), TotalExp(a), TotalNum(b), TotalExp(b))
C5_IsLess(L) == \A other \in {C5_Other(L)} : C5_Less(other, timeline[1])

C6_ChannelNeverWritten ==
    /\ [](engine.constructed =>
            /\ engine.frequency_grid = fftfreq(engine.fft_samples)
            /\ engine.angular_freq =
                  [k \in 1..engine.fft_samples |-> 2 * engine.frequency_grid[k]])
    /\ [][engine.constructed => engine' = engine]_vars
C6_Witness ==
    /\ pc = "ret" /\ iter >= 2
    /\ engine.attenuation # NoLoss /\ engine.gamma # 0 /\ engine.beta3 # 0

\* C7 (as claimed): the loop runs floor(L / dz) times; steps * dz <= L, the
\* remainder L - steps * dz is smaller than dz, and for L < dz no iteration
\* runs and the field is the input field.
C7_FloorOfQuotient ==
    AfterLoop =>
        /\ iter = FloorDiv(engine.fiber_length, engine.step_size)
        /\ iter * engine.step_size <= engine.fiber_length
        /\ engine.fiber_length - iter * engine.step_size < engine.step_size
        /\ engine.fiber_length < engine.step_size =>
              (iter = 0 /\ E_complex = Complex(frame.Ex, frame.Ey))

\* the loop body in the claimed order, on a field E
C8_HalfNonlinear(E) == nonlinear_operator(engine, E, Half(engine.step_size))
C8_Dispersed(F) == Multiply(F, dispersion_operator(engine, Whole(engine.step_size)))
C8_Attenuated(E) == Scale(E, Power(engine.attenuation, engine.step_size))
C8_Body(E) ==
    C8_Attenuated(C8_HalfNonlinear(ifft(C8_Dispersed(fft(C8_HalfNonlinear(E))))))
RECURSIVE C8_After(_, _)
C8_After(E, n) == IF n <= 0 THEN E ELSE C8_After(C8_Body(E), n - 1)
C8_Start == C8_After(Complex(frame.Ex, frame.Ey), iter)

\* C8: in every iteration the field goes through: non-linear operator with
\* dz/2, forward transform, multiplication of the transform by the dispersion
\* operator at dz, inverse transform, non-linear operator with dz/2, scaling by
\* attenuation ** dz; each once, in this order.
C8_StepOrder ==
    /\ [](/\ pc = "l102" => E_complex = C8_Start
          /\ pc = "l105" => E_complex = C8_HalfNonlinear(C8_Start)
          /\ pc = "l106" => E_complex_f = fft(C8_HalfNonlinear(C8_Start))
          /\ pc = "l107" => E_complex_f = C8_Dispersed(fft(C8_HalfNonlinear(C8_Start)))
          /\ pc = "l110" =>
                E_complex = ifft(C8_Dispersed(fft(C8_HalfNonlinear(C8_Start))))
          /\ pc = "l113" =>
                E_complex =
                   C8_HalfNonlinear(ifft(C8_Dispersed(fft(C8_HalfNonlinear(C8_Start)))))
          /\ pc = "l116" => E_complex = C8_Start)
    /\ [][/\ pc = "l102" => pc' = "l105"
          /\ pc = "l105" => pc' = "l106"
          /\ pc = "l106" => pc' \in {"l107", "raised"}
          /\ pc = "l107" => pc' = "l110"
          /\ pc = "l110" => pc' = "l113"
          /\ pc = "l113" => (iter' = iter + 1 /\ pc' \in {"l102", "l116"})
          /\ pc' = "l102" => pc \in {"l94", "l113"}]_vars
C8_Witness ==
    /\ pc = "l113" /\ iter = 1 /\ engine.fft_samples >= 2
    /\ engine.gamma # 0 /\ engine.beta2 # 0 /\ engine.attenuation # NoLoss
    /\ E_complex # Complex(frame.Ex, frame.Ey)

\* C9: on a channel with fft_samples > 0 and 0 < step_size <= fiber_length every
\* call ends; num_steps does not change while the loop runs; a call whose Ex
\* and Ey line 106 can broadcast against runs num_steps iterations, publishes
\* and returns.
C9_Terminates ==
    /\ [][InLoop => num_steps' = num_steps]_vars
    /\ [](InLoop => iter < num_steps)
    /\ []((AfterLoop /\ ValidParameters(engine)) => iter = num_steps)
    /\ (pc = "l94" /\ ValidParameters(engine)) ~> (pc = "idle")
    /\ (/\ pc = "l94" /\ ValidParameters(engine)
        /\ Broadcastable(Len(frame.Ex), engine.fft_samples)) ~> (pc = "ret")
C9_Witness ==
    /\ pc = "ret" /\ ValidParameters(engine) /\ iter = MaxLength /\ Len(timeline) = 1

====
